---- MODULE Spec2Model ----
(***************************************************************************)
(* The osmosis proposer indexer (indexer/src/main.rs): startup connection  *)
(* retry, the periodic driver, and the indexing cycle index() with its     *)
(* checkpoint query, latest-height request, parallel batch fetch and       *)
(* multi-row insert into proposer_to_height.                               *)
(***************************************************************************)
EXTENDS Bags, FiniteSets, Integers, Sequences, TLC

VARIABLES
    store,                  \* table proposer_to_height: a bag of <<proposer, height>> rows
    pc,                     \* where main / the driver task is suspended
    exit_error,             \* the error main returned, "none" while it has not returned
    attempt,                \* connection attempts made by connect_to_database in this run
    last_connect_ok,        \* outcome of the latest connect_to_database_unsafe call
    elapsed_ticks,          \* ticks of the interval that are due and not yet consumed
    active_cycles,          \* calls of index() that have started and not returned
    height_to_index,        \* index(): local height_to_index
    last_height,            \* index(): local last_height
    first_height_to_index,  \* index(): loop variable first_height_to_index
    last_height_to_index,   \* index(): local last_height_to_index of the current batch
    in_flight,              \* request_proposers(): heights whose task is in the JoinSet
    proposers_to_height,    \* request_proposers(): the Vec of results, in completion order
    result,                 \* what the latest finished call of index() returned
    printed,                \* the error the driver printed for the latest finished cycle
    requested,              \* history: heights of the block requests issued by this cycle
    latest_requests,        \* history: latest-height requests issued by this cycle
    batches,                \* history: <<first, last>> of the batches spawned by this cycle
    inserts,                \* history: insert statements executed by this cycle
    store_at_start,         \* history: the table when this cycle started
    retry_of,               \* history: the batch whose fetch failed in the previous cycle
    lost                    \* history: heights the stopped run had requested and not stored

vars == <<store, pc, exit_error, attempt, last_connect_ok, elapsed_ticks, active_cycles,
          height_to_index, last_height, first_height_to_index, last_height_to_index,
          in_flight, proposers_to_height, result, printed, requested, latest_requests,
          batches, inserts, store_at_start, retry_of, lost>>

(***************************************************************************)
(* Program constants.                                                      *)
(***************************************************************************)
OSMOSIS_LOWEST_HEIGHT == 9558628
MAXIMUM_NUMBER_OF_PARALLEL_REQUESTS == 5
MaxConnectAttempts == 10

(***************************************************************************)
(* Bounds of the model.                                                    *)
(***************************************************************************)
\* the upstream reports a latest height in LOWEST-2 .. LOWEST+MaxChain
MaxChain == 7
\* number of distinct proposers of the modelled chain
NumProposers == 2
\* ticks of the interval that can be due at once while a cycle is running
MaxElapsedTicks == 1

\* a column value is <<v>>, or <<>> for SQL NULL
Null == <<>>
None == <<>>

LatestHeights == (OSMOSIS_LOWEST_HEIGHT - 2) .. (OSMOSIS_LOWEST_HEIGHT + MaxChain)

\* The block of the upstream chain at height h: its header carries h and a proposer.
BlockAt(h) == [height |-> h, proposer_address |-> (h % NumProposers)]

(***************************************************************************)
(* The table.                                                              *)
(***************************************************************************)
Heights(t) == {r[2] : r \in BagToSet(t)}

Max(S) == CHOOSE m \in S : \A x \in S : x <= m

\* SELECT max(height) FROM proposer_to_height: always one row; its column is NULL
\* on an empty table.
SelectMaxHeight(t) ==
    IF Heights(t) = {} THEN <<Null>> ELSE << <<Max(Heights(t))>> >>

\* HeightToIndex with the `+ 1` forgotten: the cycle starts at the checkpoint itself.
HeightToIndexAtCheckpoint(rows) ==
    IF Len(rows) = 0
        THEN OSMOSIS_LOWEST_HEIGHT - 1
        ELSE IF rows[1] = Null THEN OSMOSIS_LOWEST_HEIGHT - 1 ELSE rows[1][1]

\* index(): .get(0).map_or_else(|| LOWEST - 1, |r| r.try_get(0).map_or_else(|_| LOWEST - 1, |v| v)) + 1
HeightToIndex(rows) ==
    (IF Len(rows) = 0
        THEN OSMOSIS_LOWEST_HEIGHT - 1
        ELSE IF rows[1] = Null THEN OSMOSIS_LOWEST_HEIGHT - 1 ELSE rows[1][1]) + 1

\* prepare_statement(): one ('proposer',height) tuple per element of the Vec, in order.
prepare_statement(p) ==
    [i \in 1..Len(p) |-> <<p[i].proposer, p[i].height>>]

RECURSIVE RowsOf(_)
\* The rows a statement's VALUES list carries, as a bag.
RowsOf(q) ==
    IF q = <<>> THEN EmptyBag ELSE SetToBag({q[1]}) (+) RowsOf(Tail(q))

\* The table's key on height rejects a statement that repeats a stored height or
\* repeats a height within its own rows.
HeightConflict(t, q) ==
    \/ \E i \in 1..Len(q) : q[i][2] \in Heights(t)
    \/ \E i, j \in 1..Len(q) : i # j /\ q[i][2] = q[j][2]

\* tokio_postgres execute() of the INSERT statement q on table t: the statement is
\* applied as a whole or not at all.  Each outcome is the table afterwards and what
\* the client is handed: the number of rows inserted, or Err (-1).
Err == 0 - 1
ExecuteOutcomes(t, q) ==
    \* the statement is rejected or never reaches the store
    {[table |-> t, count |-> Err]}
    \cup
    (IF HeightConflict(t, q)
        THEN {}
        ELSE {\* inserted and acknowledged
              [table |-> t (+) RowsOf(q), count |-> Len(q)],
              \* inserted, but the connection fails before the acknowledgement
              [table |-> t (+) RowsOf(q), count |-> Err]})

(***************************************************************************)
(* Errors.                                                                 *)
(***************************************************************************)
RequestErrors == {"CouldNotBuildHttpRequest", "CouldNotGetResponseFromServer"}
LastHeightErrors == RequestErrors \cup {"CouldNotParseResponseForBlockchain"}
FetchErrors == RequestErrors \cup {"CouldNotProcessResponsesInParallel",
                                   "CouldNotParseResponseForBlockAtHeight"}

(***************************************************************************)
(* Initial state: the process has just been started on an empty table.     *)
(***************************************************************************)
ProcessInit ==
    /\ pc = "start"
    /\ exit_error = "none"
    /\ attempt = 0
    /\ last_connect_ok = FALSE
    /\ elapsed_ticks = 0
    /\ active_cycles = 0
    /\ height_to_index = 0
    /\ last_height = 0
    /\ first_height_to_index = 0
    /\ last_height_to_index = 0
    /\ in_flight = {}
    /\ proposers_to_height = <<>>
    /\ result = "none"
    /\ printed = "none"
    /\ requested = <<>>
    /\ latest_requests = 0
    /\ batches = <<>>
    /\ inserts = 0
    /\ retry_of = None
    /\ lost = {}

Init ==
    /\ store = EmptyBag
    /\ store_at_start = EmptyBag
    /\ ProcessInit

(***************************************************************************)
(* main(): startup.                                                        *)
(***************************************************************************)
\* main(): Client::builder().build().map_err(CouldNotCreateHttpClient)?
BuildHttpClient ==
    /\ pc = "start"
    /\ \E ok \in BOOLEAN :
        IF ok
            THEN /\ pc' = "connect"
                 /\ exit_error' = exit_error
            ELSE /\ pc' = "failed"
                 /\ exit_error' = "CouldNotCreateHttpClient"
    /\ UNCHANGED <<store, attempt, last_connect_ok, elapsed_ticks, active_cycles,
                   height_to_index, last_height, first_height_to_index,
                   last_height_to_index, in_flight, proposers_to_height, result, printed,
                   requested, latest_requests, batches, inserts, store_at_start, retry_of,
                   lost>>

\* AfterAttempt with the loop bound off by one: gives up after nine attempts.
AfterAttemptOneShort(n, ok) ==
    IF ok THEN "tick"
    ELSE IF n < MaxConnectAttempts - 1 THEN "connect" ELSE "failed"

\* connect_to_database(): where main continues after the n-th attempt returned ok.
AfterAttempt(n, ok) ==
    IF ok THEN "tick"
    ELSE IF n < MaxConnectAttempts THEN "connect" ELSE "failed"

\* connect_to_database(): one iteration of `for _ in 0..10`, then main's `?` and the
\* spawn of the driver task, whose interval has its first tick due at once.
ConnectAttempt ==
    /\ pc = "connect"
    /\ \E ok \in BOOLEAN :
        /\ attempt' = attempt + 1
        /\ last_connect_ok' = ok
        /\ pc' = AfterAttempt(attempt + 1, ok)
        /\ exit_error' = IF pc' = "failed" THEN "CouldNotCreateDatabaseClient" ELSE exit_error
        /\ elapsed_ticks' = IF pc' = "tick" THEN 1 ELSE elapsed_ticks
    /\ UNCHANGED <<store, active_cycles, height_to_index, last_height,
                   first_height_to_index, last_height_to_index, in_flight,
                   proposers_to_height, result, printed, requested, latest_requests,
                   batches, inserts, store_at_start, retry_of, lost>>

(***************************************************************************)
(* The periodic driver.                                                    *)
(***************************************************************************)
IntervalExists == pc \in {"tick", "query", "latest", "join", "execute"}

\* time::interval: a period elapses, whatever the driver task is doing.
TimerFire ==
    /\ IntervalExists
    /\ elapsed_ticks < MaxElapsedTicks
    /\ elapsed_ticks' = elapsed_ticks + 1
    /\ UNCHANGED <<store, pc, exit_error, attempt, last_connect_ok, active_cycles,
                   height_to_index, last_height, first_height_to_index,
                   last_height_to_index, in_flight, proposers_to_height, result, printed,
                   requested, latest_requests, batches, inserts, store_at_start, retry_of,
                   lost>>

\* CanStartCycle of a driver that starts index() for every due tick, without
\* awaiting the cycle it started before.
CanStartCycleAnyTime == IntervalExists

\* The driver loop calls index() only from `interval.tick().await`.
CanStartCycle == pc = "tick"

\* loop { interval.tick().await; index(..).await ... }: a due tick starts a cycle,
\* which sends the checkpoint query.
Tick ==
    /\ CanStartCycle
    /\ elapsed_ticks > 0
    /\ elapsed_ticks' = elapsed_ticks - 1
    /\ active_cycles' = active_cycles + 1
    /\ pc' = "query"
    /\ result' = "pending"
    /\ printed' = "none"
    /\ requested' = <<>>
    /\ latest_requests' = 0
    /\ batches' = <<>>
    /\ inserts' = 0
    /\ store_at_start' = store
    /\ height_to_index' = 0
    /\ last_height' = 0
    /\ first_height_to_index' = 0
    /\ last_height_to_index' = 0
    /\ in_flight' = {}
    /\ proposers_to_height' = <<>>
    /\ UNCHANGED <<store, exit_error, attempt, last_connect_ok, retry_of, lost>>

\* Return of a driver that propagates the error of index() out of its loop (`?` in
\* place of unwrap_or_else): the driver task ends with the first failed cycle.
ReturnPropagated(r, failed_batch) ==
    /\ pc' = IF r = "Ok" THEN "tick" ELSE "failed"
    /\ active_cycles' = active_cycles - 1
    /\ result' = r
    /\ printed' = "none"
    /\ first_height_to_index' = 0
    /\ last_height_to_index' = 0
    /\ in_flight' = {}
    /\ proposers_to_height' = <<>>
    /\ retry_of' = failed_batch
    /\ lost' = {}

\* index() returns r to the driver loop, which prints an error and awaits the next
\* tick.  The JoinSet and the Vec are dropped (a dropped JoinSet aborts its tasks);
\* height_to_index and last_height stay as the record of what the cycle computed.
\* failed_batch is the batch whose fetch failed, None otherwise.
Return(r, failed_batch) ==
    /\ pc' = "tick"
    /\ active_cycles' = active_cycles - 1
    /\ result' = r
    /\ printed' = IF r = "Ok" THEN "none" ELSE r
    /\ first_height_to_index' = 0
    /\ last_height_to_index' = 0
    /\ in_flight' = {}
    /\ proposers_to_height' = <<>>
    /\ retry_of' = failed_batch
    /\ lost' = {}

(***************************************************************************)
(* index().                                                                *)
(***************************************************************************)
\* QueryCheckpoint of an indexer that issues the checkpoint query and the
\* latest-height request together: when the query fails the request is already out.
QueryCheckpointConcurrent ==
    /\ pc = "query"
    /\ \E ok \in BOOLEAN :
        IF ok
            THEN /\ height_to_index' = HeightToIndex(SelectMaxHeight(store))
                 /\ pc' = "latest"
                 /\ latest_requests' = latest_requests
                 /\ UNCHANGED <<active_cycles, result, printed, last_height,
                                first_height_to_index, last_height_to_index, in_flight,
                                proposers_to_height, retry_of, lost>>
            ELSE /\ Return("CouldNotFindIndexedHeight", None)
                 /\ latest_requests' = latest_requests + 1
                 /\ UNCHANGED <<height_to_index, last_height>>
    /\ UNCHANGED <<store, exit_error, attempt, last_connect_ok, elapsed_ticks, requested,
                   batches, inserts, store_at_start>>

\* index(): the answer of SELECT max(height) arrives; the latest-height request is sent.
QueryCheckpoint ==
    /\ pc = "query"
    /\ \E ok \in BOOLEAN :
        IF ok
            THEN /\ height_to_index' = HeightToIndex(SelectMaxHeight(store))
                 /\ pc' = "latest"
                 /\ UNCHANGED <<active_cycles, result, printed, last_height,
                                first_height_to_index, last_height_to_index, in_flight,
                                proposers_to_height, retry_of, lost>>
            ELSE /\ Return("CouldNotFindIndexedHeight", None)
                 /\ UNCHANGED <<height_to_index, last_height>>
    /\ UNCHANGED <<store, exit_error, attempt, last_connect_ok, elapsed_ticks, requested,
                   latest_requests, batches, inserts, store_at_start>>

\* BatchEnd of an indexer that fetches everything up to last_height in one batch.
BatchEndWholeRange(first, last) == last

\* BatchEnd without the clamp to last_height: always a full batch.
BatchEndUnclamped(first, last) == first + MAXIMUM_NUMBER_OF_PARALLEL_REQUESTS

\* The end of the batch that starts at first: first + B, or last_height if that is less.
BatchEnd(first, last) ==
    IF first + MAXIMUM_NUMBER_OF_PARALLEL_REQUESTS > last
        THEN last
        ELSE first + MAXIMUM_NUMBER_OF_PARALLEL_REQUESTS

\* SpawnedHeights with an inclusive range: the batch end is fetched too.
SpawnedHeightsInclusive(first, last) == first .. last

\* SpawnedHeights that starts one past first: the first height of a batch is skipped.
SpawnedHeightsSkipFirst(first, last) == (first + 1) .. (last - 1)

\* request_proposers(): `for height in first..last`, the heights a task is spawned for.
SpawnedHeights(first, last) == first .. (last - 1)

RECURSIVE Ascending(_)
\* The heights of a range in the order the for loop visits them.
Ascending(S) ==
    IF S = {} THEN <<>>
    ELSE LET m == Max(S) IN Append(Ascending(S \ {m}), m)

\* index(): the head of `while first_height_to_index < last_height` with h and l the
\* values of the other locals: either spawn the fetches of the next batch and await
\* the first join, or leave the loop and return Ok(()).
Loop(h, l, first) ==
    IF first < l
        THEN LET end == BatchEnd(first, l)
                 S == SpawnedHeights(first, end)
             IN /\ pc' = "join"
                /\ height_to_index' = h
                /\ last_height' = l
                /\ first_height_to_index' = first
                /\ last_height_to_index' = end
                /\ in_flight' = S
                /\ proposers_to_height' = <<>>
                /\ requested' = requested \o Ascending(S)
                /\ batches' = Append(batches, <<first, end>>)
                /\ UNCHANGED <<active_cycles, result, printed, retry_of, lost>>
        ELSE /\ Return("Ok", None)
             /\ height_to_index' = h
             /\ last_height' = l
             /\ UNCHANGED <<requested, batches>>

\* index(): `if height_to_index > last_height { return Ok(()) }`
NothingToIndex(h, l) == h > l

\* RequestLastHeight of an indexer that does not compare with the latest height and
\* always fetches a full batch from height_to_index on.
RequestLastHeightUnchecked ==
    /\ pc = "latest"
    /\ \/ \E e \in LastHeightErrors :
            /\ Return(e, None)
            /\ latest_requests' = IF e = "CouldNotBuildHttpRequest"
                                     THEN latest_requests ELSE latest_requests + 1
            /\ UNCHANGED <<height_to_index, last_height, requested, batches>>
       \/ \E l \in LatestHeights :
            /\ latest_requests' = latest_requests + 1
            /\ LET end == height_to_index + MAXIMUM_NUMBER_OF_PARALLEL_REQUESTS
                   S == SpawnedHeights(height_to_index, end)
               IN /\ pc' = "join"
                  /\ last_height' = l
                  /\ first_height_to_index' = height_to_index
                  /\ last_height_to_index' = end
                  /\ in_flight' = S
                  /\ proposers_to_height' = <<>>
                  /\ requested' = requested \o Ascending(S)
                  /\ batches' = Append(batches, <<height_to_index, end>>)
                  /\ UNCHANGED <<height_to_index, active_cycles, result, printed,
                                 retry_of, lost>>
    /\ UNCHANGED <<store, exit_error, attempt, last_connect_ok, elapsed_ticks, inserts,
                   store_at_start>>

\* index(): the answer of request_last_height arrives, the latest height being one
\* of Latest.
RequestLastHeightFrom(Latest) ==
    /\ pc = "latest"
    /\ \/ \E e \in LastHeightErrors :
            /\ Return(e, None)
            /\ latest_requests' = IF e = "CouldNotBuildHttpRequest"
                                     THEN latest_requests ELSE latest_requests + 1
            /\ UNCHANGED <<height_to_index, last_height, requested, batches>>
       \/ \E l \in Latest :
            /\ latest_requests' = latest_requests + 1
            /\ IF NothingToIndex(height_to_index, l)
                  THEN /\ Return("Ok", None)
                       /\ last_height' = l
                       /\ UNCHANGED <<height_to_index, requested, batches>>
                  ELSE Loop(height_to_index, l, height_to_index)
    /\ UNCHANGED <<store, exit_error, attempt, last_connect_ok, elapsed_ticks, inserts,
                   store_at_start>>

\* index(): the answer of request_last_height arrives; the upstream may report any
\* height of LatestHeights.
RequestLastHeight == RequestLastHeightFrom(LatestHeights)

\* FetchedRecord of an indexer that takes the height from the position of the result
\* in the Vec (the order of the for loop) and not from the decoded header.
FetchedRecordByPosition(response, first, position) ==
    [proposer |-> response.proposer_address, height |-> first + position]

\* request_proposers(): the ProposerToHeight built from a decoded BlockResponse, both
\* fields from its header; first is the batch start and position the number of
\* results pushed before it, neither of which the code uses.
FetchedRecord(response, first, position) ==
    [proposer |-> response.proposer_address, height |-> response.height]

\* JoinNext of an indexer that requests a height again, within the cycle, when its
\* fetch fails.
JoinNextRetry ==
    /\ pc = "join"
    /\ \E h \in in_flight :
        \/ /\ Len(requested) < 2 * MAXIMUM_NUMBER_OF_PARALLEL_REQUESTS
           /\ requested' = Append(requested, h)
           /\ UNCHANGED <<pc, in_flight, proposers_to_height>>
        \/ /\ proposers_to_height' =
                  Append(proposers_to_height,
                         FetchedRecord(BlockAt(h), first_height_to_index,
                                       Len(proposers_to_height)))
           /\ in_flight' = in_flight \ {h}
           /\ pc' = IF in_flight' = {} THEN "execute" ELSE "join"
           /\ UNCHANGED requested
    /\ UNCHANGED <<store, exit_error, attempt, last_connect_ok, elapsed_ticks,
                   active_cycles, result, printed, height_to_index, last_height,
                   first_height_to_index, last_height_to_index, retry_of, lost,
                   latest_requests, batches, inserts, store_at_start>>

\* JoinNext of an indexer that, when a fetch fails, still inserts the records it has
\* fetched so far before it returns the error.
JoinNextPartialCredit ==
    /\ pc = "join"
    /\ \E h \in in_flight :
        \/ \E e \in FetchErrors :
            /\ Return(e, <<first_height_to_index, last_height_to_index>>)
            /\ store' = store (+) RowsOf(prepare_statement(proposers_to_height))
            /\ UNCHANGED <<height_to_index, last_height>>
        \/ /\ proposers_to_height' =
                  Append(proposers_to_height,
                         FetchedRecord(BlockAt(h), first_height_to_index,
                                       Len(proposers_to_height)))
           /\ in_flight' = in_flight \ {h}
           /\ pc' = IF in_flight' = {} THEN "execute" ELSE "join"
           /\ UNCHANGED <<store, active_cycles, result, printed, height_to_index,
                          last_height, first_height_to_index, last_height_to_index,
                          retry_of, lost>>
    /\ UNCHANGED <<exit_error, attempt, last_connect_ok, elapsed_ticks, requested,
                   latest_requests, batches, inserts, store_at_start>>

\* request_proposers(): `set.join_next().await` hands over the result of one task, in
\* completion order; an error returns at once, a decoded block is pushed.
JoinNext ==
    /\ pc = "join"
    /\ \E h \in in_flight :
        \/ \E e \in FetchErrors :
            /\ Return(e, <<first_height_to_index, last_height_to_index>>)
            /\ UNCHANGED <<height_to_index, last_height>>
        \/ /\ proposers_to_height' =
                  Append(proposers_to_height,
                         FetchedRecord(BlockAt(h), first_height_to_index,
                                       Len(proposers_to_height)))
           /\ in_flight' = in_flight \ {h}
           /\ pc' = IF in_flight' = {} THEN "execute" ELSE "join"
           /\ UNCHANGED <<active_cycles, result, printed, height_to_index, last_height,
                          first_height_to_index, last_height_to_index, retry_of, lost>>
    /\ UNCHANGED <<store, exit_error, attempt, last_connect_ok, elapsed_ticks, requested,
                   latest_requests, batches, inserts, store_at_start>>

\* InsertFailed of a caller that swallows the error of execute() and goes on to
\* compare the row count.
InsertFailedSwallowed(count) == FALSE

\* index(): `.map_err(|_| Error::CouldNotIndexDuplicateHeight)?` on the result of execute().
InsertFailed(count) == count = Err

\* index(): the answer of database_client.execute(&query) arrives; the row count is
\* compared with the number of fetched records and the loop continues.
ExecuteInsert ==
    /\ pc = "execute"
    /\ \E o \in ExecuteOutcomes(store, prepare_statement(proposers_to_height)) :
        /\ store' = o.table
        /\ IF InsertFailed(o.count)
              THEN /\ Return("CouldNotIndexDuplicateHeight", None)
                   /\ UNCHANGED <<height_to_index, last_height, requested, batches>>
              ELSE IF o.count # Len(proposers_to_height)
                  THEN /\ Return("InsertedIncorrectNumberOfRows", None)
                       /\ UNCHANGED <<height_to_index, last_height, requested, batches>>
                  ELSE Loop(height_to_index, last_height, last_height_to_index)
    /\ inserts' = inserts + 1
    /\ UNCHANGED <<exit_error, attempt, last_connect_ok, elapsed_ticks, latest_requests,
                   store_at_start>>

(***************************************************************************)
(* The process is stopped at any point and started again; the table stays. *)
(***************************************************************************)
Restart ==
    /\ pc' = "start"
    /\ exit_error' = "none"
    /\ attempt' = 0
    /\ last_connect_ok' = FALSE
    /\ elapsed_ticks' = 0
    /\ active_cycles' = 0
    /\ height_to_index' = 0
    /\ last_height' = 0
    /\ first_height_to_index' = 0
    /\ last_height_to_index' = 0
    /\ in_flight' = {}
    /\ proposers_to_height' = <<>>
    /\ result' = "none"
    /\ printed' = "none"
    /\ requested' = <<>>
    /\ latest_requests' = 0
    /\ batches' = <<>>
    /\ inserts' = 0
    /\ retry_of' = None
    /\ lost' = {requested[i] : i \in 1..Len(requested)} \ Heights(store)
    /\ UNCHANGED <<store, store_at_start>>

Next ==
    \/ BuildHttpClient
    \/ ConnectAttempt
    \/ TimerFire
    \/ Tick
    \/ QueryCheckpoint
    \/ RequestLastHeight
    \/ JoinNext
    \/ ExecuteInsert
    \/ Restart

Spec == Init /\ [][Next]_vars

\* The runtime fires the interval's timer and resumes the driver task when its tick
\* is due.
LiveSpec == Spec /\ WF_vars(TimerFire) /\ WF_vars(Tick)

\* The process left running: every step but the stop of the process.
RunningNext ==
    \/ BuildHttpClient
    \/ ConnectAttempt
    \/ TimerFire
    \/ Tick
    \/ QueryCheckpoint
    \/ RequestLastHeight
    \/ JoinNext
    \/ ExecuteInsert

\* Every call index() awaits returns: the store answers the query and the insert, the
\* upstream answers the latest-height request, every spawned task is joined.
FairSpec ==
    /\ Init
    /\ [][RunningNext]_vars
    /\ WF_vars(TimerFire)
    /\ WF_vars(Tick)
    /\ WF_vars(QueryCheckpoint)
    /\ WF_vars(RequestLastHeight)
    /\ WF_vars(JoinNext)
    /\ WF_vars(ExecuteInsert)

(***************************************************************************)
(* The indexer left running against an upstream whose latest height stays   *)
(* at FixedLatest, with failures that are only transient: each awaited call *)
(* that is made again and again succeeds again and again.                   *)
(***************************************************************************)
FixedLatest == OSMOSIS_LOWEST_HEIGHT + MaxChain

RequestFixedLastHeight == RequestLastHeightFrom({FixedLatest})

\* the SELECT is answered
QueryAnswered == QueryCheckpoint /\ pc' = "latest"
\* the latest-height request is answered and decoded
LatestAnswered == RequestFixedLastHeight /\ (pc' = "join" \/ result' = "Ok")
\* with k tasks left in the JoinSet, the next one joined carries a decoded block
BlockFetched(k) == JoinNext /\ Cardinality(in_flight) = k /\ pc' # "tick"
\* the INSERT is stored and acknowledged
InsertAcknowledged == ExecuteInsert /\ (pc' = "join" \/ result' = "Ok")

CatchUpNext ==
    \/ BuildHttpClient
    \/ ConnectAttempt
    \/ TimerFire
    \/ Tick
    \/ QueryCheckpoint
    \/ RequestFixedLastHeight
    \/ JoinNext
    \/ ExecuteInsert

CatchUpSpec ==
    /\ Init
    /\ [][CatchUpNext]_vars
    /\ WF_vars(TimerFire)
    /\ WF_vars(Tick)
    /\ SF_vars(QueryAnswered)
    /\ SF_vars(LatestAnswered)
    /\ \A k \in 1..MAXIMUM_NUMBER_OF_PARALLEL_REQUESTS : SF_vars(BlockFetched(k))
    /\ SF_vars(InsertAcknowledged)

(***************************************************************************)
(* The single-batch indexer of src/src/main.rs: one connect attempt, no     *)
(* latest-height request, one batch of B heights per cycle.  It is started  *)
(* on a table that is empty or holds the first heights of the chain.        *)
(***************************************************************************)
\* heights the upstream has a block for; a request for a later height is answered
\* with a JSON-RPC error, which does not decode as a block
ChainHeights == OSMOSIS_LOWEST_HEIGHT .. (OSMOSIS_LOWEST_HEIGHT + MaxChain)

SingleBatchInit ==
    /\ \E K \in (OSMOSIS_LOWEST_HEIGHT - 1) .. (OSMOSIS_LOWEST_HEIGHT + MaxChain) :
           store = SetToBag({<<BlockAt(h).proposer_address, h>>
                                : h \in OSMOSIS_LOWEST_HEIGHT .. K})
    /\ store_at_start = store
    /\ ProcessInit

\* main(): tokio_postgres::connect(..).await.map_err(CouldNotCreateDatabaseClient)?,
\* then the spawn of the driver task, whose interval has its first tick due at once.
ConnectOnce ==
    /\ pc = "connect"
    /\ \E ok \in BOOLEAN :
        /\ attempt' = attempt + 1
        /\ last_connect_ok' = ok
        /\ pc' = IF ok THEN "tick" ELSE "failed"
        /\ exit_error' = IF ok THEN exit_error ELSE "CouldNotCreateDatabaseClient"
        /\ elapsed_ticks' = IF ok THEN 1 ELSE elapsed_ticks
    /\ UNCHANGED <<store, active_cycles, height_to_index, last_height,
                   first_height_to_index, last_height_to_index, in_flight,
                   proposers_to_height, result, printed, requested, latest_requests,
                   batches, inserts, store_at_start, retry_of, lost>>

\* index(): the answer of SELECT max(height) arrives.  `r.get(0)` panics on the NULL
\* of an empty table: the driver task dies and main's `expect` ends the process.
\* Otherwise request_proposers spawns the B requests height_to_index + 0..B.
SingleBatchQuery ==
    /\ pc = "query"
    /\ \E ok \in BOOLEAN :
        IF ~ok
            THEN /\ Return("CouldNotFindIndexedHeight", None)
                 /\ UNCHANGED <<exit_error, height_to_index, requested, batches>>
            ELSE LET rows == SelectMaxHeight(store) IN
                 IF rows # <<>> /\ rows[1] = Null
                     THEN /\ pc' = "panicked"
                          /\ exit_error' = "Recurring task failed"
                          /\ UNCHANGED <<active_cycles, result, printed, height_to_index,
                                         first_height_to_index, last_height_to_index,
                                         in_flight, proposers_to_height, requested,
                                         batches, retry_of, lost>>
                     ELSE LET h == (IF rows = <<>> THEN OSMOSIS_LOWEST_HEIGHT - 1
                                                   ELSE rows[1][1]) + 1 IN
                          /\ height_to_index' = h
                          /\ first_height_to_index' = h
                          /\ last_height_to_index' = h + MAXIMUM_NUMBER_OF_PARALLEL_REQUESTS
                          /\ in_flight' = h .. (h + MAXIMUM_NUMBER_OF_PARALLEL_REQUESTS - 1)
                          /\ requested' =
                                 [i \in 1..MAXIMUM_NUMBER_OF_PARALLEL_REQUESTS |-> h + i - 1]
                          /\ batches' = <<<<h, h + MAXIMUM_NUMBER_OF_PARALLEL_REQUESTS>>>>
                          /\ proposers_to_height' = <<>>
                          /\ pc' = "join"
                          /\ UNCHANGED <<exit_error, active_cycles, result, printed,
                                         retry_of, lost>>
    /\ UNCHANGED <<store, attempt, last_connect_ok, elapsed_ticks, last_height,
                   latest_requests, inserts, store_at_start>>

\* request_proposers(): `set.join_next().await` hands over the result of one task, in
\* completion order; an error returns at once, a decoded block is pushed.
SingleBatchJoinNext ==
    /\ pc = "join"
    /\ \E h \in in_flight :
        \/ \E e \in FetchErrors :
            /\ Return(e, <<first_height_to_index, last_height_to_index>>)
            /\ UNCHANGED height_to_index
        \/ /\ h \in ChainHeights
           /\ proposers_to_height' =
                  Append(proposers_to_height,
                         [proposer |-> BlockAt(h).proposer_address,
                          height |-> BlockAt(h).height])
           /\ in_flight' = in_flight \ {h}
           /\ pc' = IF in_flight' = {} THEN "execute" ELSE "join"
           /\ UNCHANGED <<active_cycles, result, printed, height_to_index,
                          first_height_to_index, last_height_to_index, retry_of, lost>>
    /\ UNCHANGED <<store, exit_error, attempt, last_connect_ok, elapsed_ticks, last_height,
                   requested, latest_requests, batches, inserts, store_at_start>>

\* index(): the answer of database_client.execute(&query) arrives; the row count is
\* compared with the number of fetched records and index() returns.
SingleBatchExecute ==
    /\ pc = "execute"
    /\ \E o \in ExecuteOutcomes(store, prepare_statement(proposers_to_height)) :
        /\ store' = o.table
        /\ Return(IF o.count = Err THEN "CouldNotIndexDuplicateHeight"
                  ELSE IF o.count # Len(proposers_to_height)
                           THEN "InsertedIncorrectNumberOfRows"
                           ELSE "Ok",
                  None)
    /\ inserts' = inserts + 1
    /\ UNCHANGED <<exit_error, attempt, last_connect_ok, elapsed_ticks, height_to_index,
                   last_height, requested, latest_requests, batches, store_at_start>>

SingleBatchNext ==
    \/ BuildHttpClient
    \/ ConnectOnce
    \/ TimerFire
    \/ Tick
    \/ SingleBatchQuery
    \/ SingleBatchJoinNext
    \/ SingleBatchExecute
    \/ Restart

SingleBatchSpec == SingleBatchInit /\ [][SingleBatchNext]_vars

TypeOK ==
    /\ pc \in {"start", "connect", "failed", "panicked", "tick", "query", "latest", "join",
              "execute"}
    /\ attempt \in 0..MaxConnectAttempts
    /\ elapsed_ticks \in 0..MaxElapsedTicks
    /\ active_cycles \in 0..1

(***************************************************************************)
(* Properties.                                                             *)
(***************************************************************************)
InCycle == pc \in {"query", "latest", "join", "execute"}
\* the cycle has its checkpoint (the query has answered)
HasCheckpoint == pc \in {"latest", "join", "execute"}
\* the latest finished cycle got an answer to its latest-height request
GotLatest == last_height \in LatestHeights
CycleFinished == pc = "tick" /\ result \notin {"none", "pending"}

\* the row the chain defines for height h
RowAt(h) == <<BlockAt(h).proposer_address, h>>
\* the table that holds exactly one row for each height of S
TableOf(S) == SetToBag({RowAt(h) : h \in S})
\* number of rows of t whose height is h
RowsAtHeight(t, h) ==
    LET R == {r \in BagToSet(t) : r[2] = h}
    IN BagCardinality([r \in R |-> CopiesIn(r, t)])

\* C1: a cycle started on a table that holds the contiguous heights [L, K] computes
\* height_to_index = K + 1, whatever cycles completed, failed or were cut off by a
\* restart before it.
IdempotentResume ==
    \A L, K \in (OSMOSIS_LOWEST_HEIGHT - 1) .. (OSMOSIS_LOWEST_HEIGHT + MaxChain) :
        (HasCheckpoint /\ L <= K /\ Heights(store_at_start) = L .. K)
            => height_to_index = K + 1

\* C1 witness: a cycle that follows a failed fetch has computed its checkpoint on a
\* table holding more than one batch of heights.
IdempotentResumeWitness ==
    /\ pc = "latest"
    /\ retry_of # None
    /\ Cardinality(Heights(store_at_start)) > MAXIMUM_NUMBER_OF_PARALLEL_REQUESTS
    /\ height_to_index = Max(Heights(store_at_start)) + 1

\* the k-th batch of a cycle from n to l, in closed form
NthBatch(n, l, k) ==
    LET lo == n + (k - 1) * MAXIMUM_NUMBER_OF_PARALLEL_REQUESTS
        hi == n + k * MAXIMUM_NUMBER_OF_PARALLEL_REQUESTS
    IN <<lo, IF hi < l THEN hi ELSE l>>
\* ceil((l - n) / B)
NumBatches(n, l) ==
    (l - n + MAXIMUM_NUMBER_OF_PARALLEL_REQUESTS - 1) \div MAXIMUM_NUMBER_OF_PARALLEL_REQUESTS

\* C2: a cycle with n = height_to_index < l = last_height that returns Ok has
\* performed the batches [n, n+B), [n+B, n+2B), ... ending at l, one insert each, and
\* the table has gained exactly one row for each of the heights n .. l-1.
BatchCompleteness ==
    (CycleFinished /\ result = "Ok" /\ GotLatest /\ height_to_index < last_height)
        => /\ Len(batches) = NumBatches(height_to_index, last_height)
           /\ \A k \in 1..Len(batches) :
                  batches[k] = NthBatch(height_to_index, last_height, k)
           /\ inserts = Len(batches)
           /\ store = store_at_start (+) TableOf(height_to_index .. (last_height - 1))
           /\ \A h \in height_to_index .. (last_height - 1) :
                  RowsAtHeight(store_at_start, h) = 0 /\ RowsAtHeight(store, h) = 1

\* C2 witness: a successful cycle of two batches, a full one and a partial one of
\* two heights (as [100, 105) and [105, 107)).
BatchCompletenessWitness ==
    /\ CycleFinished /\ result = "Ok"
    /\ last_height - height_to_index = MAXIMUM_NUMBER_OF_PARALLEL_REQUESTS + 2
    /\ Len(batches) = 2
    /\ batches[2][2] - batches[2][1] = 2

\* C4: the table holds at most one row per height, and its heights are a contiguous
\* range that starts at the lowest height.
StoreInvariant ==
    /\ \A h \in Heights(store) : RowsAtHeight(store, h) = 1
    /\ Heights(store) =
           OSMOSIS_LOWEST_HEIGHT .. (OSMOSIS_LOWEST_HEIGHT + Cardinality(Heights(store)) - 1)

\* C4 witness: a cycle has failed in a fetch after it committed a batch, on a table
\* that holds more than one batch of heights.
StoreInvariantWitness ==
    /\ CycleFinished /\ result \in FetchErrors
    /\ Cardinality(Heights(store)) > MAXIMUM_NUMBER_OF_PARALLEL_REQUESTS
    /\ store_at_start # store

\* C5: a cycle whose height_to_index is greater than the reported latest height
\* returns Ok having issued no block fetch and no insert, the table unchanged.
NoOpWhenCaughtUp ==
    (CycleFinished /\ GotLatest /\ height_to_index > last_height)
        => /\ result = "Ok"
           /\ requested = <<>>
           /\ batches = <<>>
           /\ inserts = 0
           /\ store = store_at_start

\* C5 witness: a finished cycle on a non-empty table whose checkpoint is ahead of
\* the reported latest height.
NoOpWhenCaughtUpWitness ==
    /\ CycleFinished /\ GotLatest
    /\ Heights(store) # {}
    /\ height_to_index = last_height + 1
    /\ result = "Ok"

\* C7: at most one call of index() is running, also when a tick falls due while a
\* cycle runs; an insert is in flight only inside that one cycle.
NonOverlappingCycles ==
    /\ active_cycles <= 1
    /\ (pc = "execute" => active_cycles = 1)
    /\ (active_cycles = 1 <=> InCycle)

\* C7 witness: a tick is due while a cycle awaits its insert.
NonOverlappingCyclesWitness ==
    /\ pc = "execute"
    /\ elapsed_ticks > 0
    /\ active_cycles = 1

\* C9: connect_to_database makes at most ten attempts; a successful attempt starts
\* the driver; main returns CouldNotCreateDatabaseClient only after ten failed
\* attempts, and then no tick and no cycle has run or will run.
StartupRetryBound ==
    /\ attempt <= MaxConnectAttempts
    /\ (last_connect_ok => IntervalExists /\ exit_error = "none")
    /\ (pc = "connect" => attempt < MaxConnectAttempts)
    /\ (exit_error = "CouldNotCreateDatabaseClient"
            => /\ pc = "failed"
               /\ attempt = MaxConnectAttempts
               /\ ~last_connect_ok)
    /\ (pc = "failed"
            => /\ elapsed_ticks = 0
               /\ active_cycles = 0
               /\ result = "none"
               /\ ~ENABLED Tick
               /\ ~ENABLED TimerFire)

\* C9 witness: all ten attempts failed and main has returned the error.
StartupRetryBoundWitness ==
    /\ pc = "failed"
    /\ exit_error = "CouldNotCreateDatabaseClient"
    /\ attempt = MaxConnectAttempts

BatchHeights(k) == batches[k][1] .. (batches[k][2] - 1)
BatchStored(k) == \A h \in BatchHeights(k) : RowsAtHeight(store, h) = 1
BatchAbsent(k) == \A h \in BatchHeights(k) : RowsAtHeight(store, h) = 0
\* the checkpoint the next cycle will compute: max(height) of the table
Checkpoint == Max(Heights(store) \cup {OSMOSIS_LOWEST_HEIGHT - 1})
\* the latest insert of the finished cycle stored fewer rows than were fetched
InsertFellShort ==
    /\ CycleFinished
    /\ inserts > 0
    /\ inserts = Len(batches)
    /\ ~BatchStored(Len(batches))

FetchFailed == CycleFinished /\ retry_of # None
\* a cycle is running that follows a cycle whose fetch of batch retry_of failed
RetryCycle == InCycle /\ retry_of # None

\* the part of C6 that holds: a failed fetch returns its error with no insert for its
\* batch and no later batch, and the next cycle computes the same checkpoint.
FetchFailureAborts ==
    /\ FetchFailed
           => /\ result \in FetchErrors
              /\ batches # <<>>
              /\ batches[Len(batches)] = retry_of
              /\ inserts = Len(batches) - 1
              /\ BatchAbsent(Len(batches))
              /\ Checkpoint + 1 = retry_of[1]
    /\ (RetryCycle /\ HasCheckpoint) => height_to_index = retry_of[1]

\* C6 as stated: after a failed fetch the next cycle starts from the same checkpoint
\* and requests the same range again.
FetchFailureRetriesSameRange ==
    /\ FetchFailureAborts
    /\ (RetryCycle /\ batches # <<>>) => batches[1] = retry_of

\* C6 amended: after a failed fetch (no insert for the batch, the error returned, no
\* later batch) the next cycle starts from the same checkpoint; the first batch it
\* requests, if any, starts at the same height and ends where its own latest height
\* puts the end, which is the same range only if that end is unchanged.
FetchFailureRetriesFromSameCheckpoint ==
    /\ FetchFailureAborts
    /\ (RetryCycle /\ batches # <<>>)
           => /\ batches[1] = NthBatch(retry_of[1], last_height, 1)
              /\ (batches[1][2] = retry_of[2] => batches[1] = retry_of)

\* C6 witness: the cycle after a failed fetch of a partial batch requests a longer
\* range from the same height.
FetchFailureRetryWitness ==
    /\ RetryCycle
    /\ pc = "join"
    /\ Len(batches) = 1
    /\ batches[1][1] = retry_of[1]
    /\ batches[1][2] > retry_of[2]
    /\ Heights(store) # {}

CycleErrors ==
    FetchErrors \cup LastHeightErrors
        \cup {"CouldNotFindIndexedHeight", "CouldNotIndexDuplicateHeight",
              "InsertedIncorrectNumberOfRows"}

\* a step in which a running call of index() returns
CycleCompletes == active_cycles = 1 /\ active_cycles' = 0 /\ pc' # "start"

\* C8: every cycle that completes, with Ok or with any error, takes the driver back
\* to awaiting the next tick; the error is printed and main does not return; and
\* after a failed cycle a further cycle starts (unless the process is restarted).
ErrorIsolation ==
    /\ [][CycleCompletes
            => /\ pc' = "tick"
               /\ exit_error' = "none"
               /\ result' \in CycleErrors \cup {"Ok"}
               /\ printed' = (IF result' = "Ok" THEN "none" ELSE result')]_vars
    /\ ((CycleFinished /\ result \in CycleErrors) ~> (pc = "query" \/ pc = "start"))

\* C8 witness: the driver awaits the next tick after a cycle that failed in its
\* insert, the error printed.
ErrorIsolationWitness ==
    /\ CycleFinished
    /\ result = "CouldNotIndexDuplicateHeight"
    /\ printed = result
    /\ exit_error = "none"
    /\ elapsed_ticks = 0

\* the heights of a sequence of requests
Range(q) == {q[i] : i \in 1..Len(q)}
\* max(height) of table t, or the lowest height minus one
CheckpointOf(t) == Max(Heights(t) \cup {OSMOSIS_LOWEST_HEIGHT - 1})

\* C11: whatever the order in which the fetches of a batch complete, every record
\* pairs the proposer with the height of its own block, and the rows of the insert
\* are exactly the rows of the batch's heights.
OrderIndependence ==
    /\ \A i \in 1..Len(proposers_to_height) :
           /\ proposers_to_height[i].height \in BatchHeights(Len(batches))
           /\ proposers_to_height[i].proposer
                  = BlockAt(proposers_to_height[i].height).proposer_address
    /\ pc = "execute"
           => RowsOf(prepare_statement(proposers_to_height))
                  = TableOf(BatchHeights(Len(batches)))
    /\ \A r \in BagToSet(store) : r = RowAt(r[2])

\* C11 witness: the insert of a batch whose fetches completed out of order, two of
\* them with different proposers in the reverse order of their heights.
OrderIndependenceWitness ==
    /\ pc = "execute"
    /\ Len(proposers_to_height) >= 3
    /\ proposers_to_height[1].height > proposers_to_height[2].height
    /\ proposers_to_height[1].proposer # proposers_to_height[2].proposer

\* C13: at most B block fetches are in flight, all of the current batch, and the
\* fetches of a batch are spawned only after the inserts of all batches before it.
BoundedFanOut ==
    /\ Cardinality(in_flight) <= MAXIMUM_NUMBER_OF_PARALLEL_REQUESTS
    /\ Len(batches) <= inserts + 1
    /\ in_flight # {}
           => /\ pc = "join"
              /\ in_flight \subseteq BatchHeights(Len(batches))
              /\ inserts = Len(batches) - 1
              /\ \A k \in 1..(Len(batches) - 1) : BatchStored(k)

\* C13 witness: B fetches in flight while more than B heights are still to index.
BoundedFanOutWitness ==
    /\ pc = "join"
    /\ Cardinality(in_flight) = MAXIMUM_NUMBER_OF_PARALLEL_REQUESTS
    /\ last_height - height_to_index > MAXIMUM_NUMBER_OF_PARALLEL_REQUESTS

\* C14: wherever the process was stopped, the first cycle after the restart resumes
\* at max(height) + 1: the heights it requests start there and have no gap, no height
\* the stopped run had requested is skipped, and the heights that run had requested
\* without storing them, which are requested again, are at most B.
CrashResumability ==
    /\ Cardinality(lost) <= MAXIMUM_NUMBER_OF_PARALLEL_REQUESTS
    /\ \A h \in lost : h \in Heights(store) \/ h > CheckpointOf(store)
    /\ HasCheckpoint => height_to_index = CheckpointOf(store_at_start) + 1
    /\ requested # <<>>
           => /\ requested[1] = CheckpointOf(store_at_start) + 1
              /\ \A i \in 1..(Len(requested) - 1) : requested[i + 1] = requested[i] + 1
    /\ Heights(store) = OSMOSIS_LOWEST_HEIGHT .. CheckpointOf(store)

\* C14 witness: the run was stopped with a full batch fetched and not stored, and
\* the first cycle after the restart has fetched all of it again.
CrashResumabilityWitness ==
    /\ Cardinality(lost) = MAXIMUM_NUMBER_OF_PARALLEL_REQUESTS
    /\ pc = "execute"
    /\ lost \subseteq Range(requested)
    /\ Heights(store) # {}

\* C15: within a cycle first_height_to_index strictly increases at each committed
\* batch and never exceeds last_height; a successful cycle has reached last_height
\* after at most ceil((last_height - height_to_index) / B) batches; and, every awaited
\* call returning, every cycle ends, with Ok or with an error.
CatchUpTermination ==
    /\ [][(pc = "execute" /\ pc' = "join")
            => /\ first_height_to_index' > first_height_to_index
               /\ first_height_to_index' = last_height_to_index
               /\ first_height_to_index' <= last_height']_vars
    /\ [](pc \in {"join", "execute"}
            => /\ height_to_index <= first_height_to_index
               /\ first_height_to_index < last_height
               /\ last_height_to_index <= last_height
               /\ Len(batches) <= NumBatches(height_to_index, last_height))
    /\ []((CycleFinished /\ result = "Ok" /\ GotLatest /\ batches # <<>>)
            => /\ batches[Len(batches)][2] >= last_height
               /\ Len(batches) <= NumBatches(height_to_index, last_height))
    /\ [](CycleFinished => result \in CycleErrors \cup {"Ok"})
    /\ (InCycle ~> ~InCycle)

\* C15 witness: the loop is in its second batch, the first one committed.
CatchUpTerminationWitness ==
    /\ pc = "join"
    /\ Len(batches) = 2
    /\ inserts = 1
    /\ first_height_to_index = batches[1][2]
    /\ BatchStored(1)

\* C16: rows are only added, never changed or removed, and only by the insert that
\* follows a fully successful fetch of a batch; max(height) never decreases.
RecordsAppendOnly ==
    [][/\ store \sqsubseteq store'
       /\ CheckpointOf(store') >= CheckpointOf(store)
       /\ store' # store
              => /\ pc = "execute"
                 /\ in_flight = {}
                 /\ Range([i \in 1..Len(proposers_to_height)
                              |-> proposers_to_height[i].height])
                        = BatchHeights(Len(batches))
                 /\ store' = store (+) RowsOf(prepare_statement(proposers_to_height))]_vars

\* C16 witness: a cycle goes on after its first insert added rows to a table that
\* already held rows.
RecordsAppendOnlyWitness ==
    /\ pc = "join"
    /\ inserts = 1
    /\ Heights(store_at_start) # {}
    /\ store # store_at_start
    /\ store_at_start \sqsubseteq store

\* what every cycle satisfies of C17: no height is requested twice, the latest height
\* at most once, and requests are issued only by the spawn of a batch in a running
\* cycle, none after an error until a tick starts the next cycle.
NoSecondRequest ==
    /\ [](/\ \A i, j \in 1..Len(requested) : i # j => requested[i] # requested[j]
          /\ latest_requests <= 1
          /\ (pc \in {"join", "execute"} => latest_requests = 1)
          /\ (CycleFinished => in_flight = {}))
    /\ [][requested' # requested
            => \/ requested' = <<>>
               \/ /\ pc \in {"latest", "execute"}
                  /\ pc' = "join"
                  /\ Range(requested') \ Range(requested) = in_flight']_vars

\* C17 as stated: in every cycle the latest height is requested exactly once.
LatestRequestedExactlyOnce ==
    CycleFinished => latest_requests = 1

\* C17 amended: within one cycle each height is requested at most once and the
\* latest height at most once: exactly once if the checkpoint query succeeded and the
\* request could be built, not at all otherwise; after an error no request is issued
\* until a tick starts a new cycle.
NoRetryWithinCycle ==
    /\ NoSecondRequest
    /\ [](CycleFinished
            => latest_requests =
                   (IF \/ result = "CouldNotFindIndexedHeight"
                       \/ (result = "CouldNotBuildHttpRequest" /\ batches = <<>>)
                       THEN 0 ELSE 1))

\* C17 witness: a cycle ended with a transport error of a block fetch, one
\* latest-height request and every height requested once.
NoRetryWithinCycleWitness ==
    /\ CycleFinished
    /\ result = "CouldNotGetResponseFromServer"
    /\ batches # <<>>
    /\ latest_requests = 1
    /\ Cardinality(Range(requested)) = Len(requested)

\* C18: the checkpoint query precedes the latest-height request, which precedes every
\* block fetch and insert; a failed query returns CouldNotFindIndexedHeight with no
\* upstream request, no insert and no second query; a failed latest-height request
\* returns its error with no block fetch and no insert.
StepOrdering ==
    /\ [](/\ pc = "query" => latest_requests = 0 /\ requested = <<>> /\ inserts = 0
          /\ pc = "latest" => requested = <<>> /\ inserts = 0
          /\ requested # <<>> => latest_requests = 1
          /\ inserts <= Len(batches)
          /\ (CycleFinished /\ result = "CouldNotFindIndexedHeight")
                 => /\ latest_requests = 0
                    /\ requested = <<>>
                    /\ inserts = 0
                    /\ store = store_at_start
          /\ (CycleFinished /\ ~GotLatest /\ result # "CouldNotFindIndexedHeight")
                 => /\ result \in LastHeightErrors
                    /\ requested = <<>>
                    /\ inserts = 0
                    /\ store = store_at_start)
    /\ [][pc = "query" => pc' \in {"query", "latest", "tick", "start"}]_vars

\* C18 witness: a cycle on a non-empty table ended with a failed checkpoint query.
StepOrderingWitness ==
    /\ CycleFinished
    /\ result = "CouldNotFindIndexedHeight"
    /\ Heights(store) # {}

\* C19: the height reported as latest is neither fetched nor written by the cycle it
\* was reported to; a cycle with height_to_index = last_height returns Ok with no
\* fetch and no insert; after a successful cycle with height_to_index <= last_height
\* the checkpoint is last_height - 1.
LagByOne ==
    /\ (GotLatest /\ (InCycle \/ CycleFinished))
           => /\ \A i \in 1..Len(requested) : requested[i] < last_height
              /\ \A h \in Heights(store) \ Heights(store_at_start) : h < last_height
    /\ (CycleFinished /\ GotLatest /\ height_to_index = last_height)
           => /\ result = "Ok"
              /\ requested = <<>>
              /\ inserts = 0
              /\ store = store_at_start
    /\ (CycleFinished /\ GotLatest /\ result = "Ok" /\ height_to_index <= last_height)
           => CheckpointOf(store) = last_height - 1

\* C19 witness: a successful cycle that wrote rows up to the height below the
\* reported latest one.
LagByOneWitness ==
    /\ CycleFinished /\ GotLatest /\ result = "Ok"
    /\ inserts > 0
    /\ CheckpointOf(store) = last_height - 1
    /\ RowsAtHeight(store, last_height) = 0

\* C12: a cycle that finds the table empty computes height_to_index =
\* OSMOSIS_LOWEST_HEIGHT, and the first height fetched and the lowest height written
\* are OSMOSIS_LOWEST_HEIGHT.
EmptyStoreCheckpoint ==
    /\ (Heights(store_at_start) = {} /\ active_cycles = 1 /\ pc # "query")
           => height_to_index = OSMOSIS_LOWEST_HEIGHT
    /\ (Heights(store_at_start) = {} /\ requested # <<>>)
           => requested[1] = OSMOSIS_LOWEST_HEIGHT
    /\ Heights(store) # {}
           => \A h \in Heights(store) : h >= OSMOSIS_LOWEST_HEIGHT

\* C12 witness: the checkpoint query of a cycle has answered on an empty table.
EmptyStoreCheckpointWitness ==
    /\ Heights(store_at_start) = {}
    /\ active_cycles = 1
    /\ pc \notin {"query", "tick"}

\* the table holds every height below the fixed latest height
CaughtUp == CheckpointOf(store) = FixedLatest - 1
\* a cycle that found the table caught up has ended
CaughtUpCycleFinished == CycleFinished /\ CheckpointOf(store_at_start) = FixedLatest - 1

\* a cycle has ended with an error on a table that is not caught up
FailedBehind == CycleFinished /\ result # "Ok" /\ ~CaughtUp

\* what holds of C20 as stated and as amended: once the driver runs, a cycle finds
\* the checkpoint at FixedLatest - 1, where it stays; and after a failed cycle on a
\* table that is not caught up, a later cycle starts and writes rows.
CatchUpProgress ==
    /\ IntervalExists ~> (CaughtUp /\ CaughtUpCycleFinished /\ result = "Ok")
    /\ [][CaughtUp => (CaughtUp' /\ store' = store)]_vars
    /\ [](FailedBehind => <>(pc = "query" /\ <>(store # store_at_start)))

\* C20 as stated: the checkpoint eventually reaches FixedLatest - 1 and from then on
\* every cycle is a success with zero fetches and zero inserts; a failed cycle never
\* prevents later progress.
EveryCaughtUpCycleSucceeds ==
    /\ CatchUpProgress
    /\ [](CaughtUpCycleFinished => (result = "Ok" /\ requested = <<>> /\ inserts = 0))

\* C20 amended: the checkpoint eventually reaches FixedLatest - 1; from then on every
\* cycle makes zero fetches and zero inserts and is a success unless its checkpoint
\* query or its latest-height request fails, and successful cycles keep occurring; a
\* failed cycle never prevents later progress.
EventualCatchUp ==
    /\ CatchUpProgress
    /\ [](CaughtUpCycleFinished
            => /\ requested = <<>>
               /\ inserts = 0
               /\ store = store_at_start
               /\ result \in {"Ok", "CouldNotFindIndexedHeight"} \cup LastHeightErrors)

\* C20 witness: after failed cycles on the way, a cycle on the caught-up table failed
\* at its latest-height request.
EventualCatchUpWitness ==
    /\ CaughtUpCycleFinished
    /\ result = "CouldNotGetResponseFromServer"
    /\ requested = <<>>
    /\ CaughtUp

====
